---------------------------- MODULE Spec2Model ----------------------------
(***************************************************************************)
(* token-whitelist: the registry processor (processor.rs), the record      *)
(* codec (state.rs) and the instruction codec (instruction.rs).            *)
(*                                                                         *)
(* A byte is a number in 0..255.  A u64 is kept as four 16-bit limbs, most *)
(* significant first, because 2^64 does not fit the checker's integers.    *)
(* A Pubkey is its 32 bytes; a String is the sequence of its UTF-8 bytes.  *)
(***************************************************************************)
EXTENDS Integers, Sequences, FiniteSets, TLC

\* ------------------------------------------------------------- state.rs
INITIALIZED_BYTES == 1
PUBKEY_BYTES == 32
WHITELIST_SIZE_BYTES == 8
MAP_LENGTH == 4
MAP_BYTES == 5116
ACCOUNT_STATE_SPACE ==
    INITIALIZED_BYTES + PUBKEY_BYTES + WHITELIST_SIZE_BYTES + MAP_LENGTH + MAP_BYTES

\* ------------------------------------------------------------- integers
Limb == 256 * 256

\* The u64 whose value is n, for 0 <= n < 2^31.
U64(n) == <<0, 0, n \div Limb, n % Limb>>

U64_MAX == <<Limb - 1, Limb - 1, Limb - 1, Limb - 1>>

\* u64::to_le_bytes
to_le_bytes(x) ==
    <<x[4] % 256, x[4] \div 256, x[3] % 256, x[3] \div 256,
      x[2] % 256, x[2] \div 256, x[1] % 256, x[1] \div 256>>

\* u64::from_le_bytes
from_le_bytes(b) ==
    <<b[8] * 256 + b[7], b[6] * 256 + b[5], b[4] * 256 + b[3], b[2] * 256 + b[1]>>

\* a >= b on u64
u64_ge(a, b) ==
    \/ a = b
    \/ \E i \in 1..4 : a[i] > b[i] /\ \A j \in 1..(i - 1) : a[j] = b[j]

\* A checked_add that wraps around instead of reporting the overflow.
checked_add_Wrapping(a, b) ==
    LET s4 == a[4] + b[4]
        s3 == a[3] + b[3] + s4 \div Limb
        s2 == a[2] + b[2] + s3 \div Limb
        s1 == a[1] + b[1] + s2 \div Limb
    IN  [some |-> TRUE, val |-> <<s1 % Limb, s2 % Limb, s3 % Limb, s4 % Limb>>]

\* u64::checked_add: None on overflow, else Some(a + b).
checked_add(a, b) ==
    LET s4 == a[4] + b[4]
        s3 == a[3] + b[3] + s4 \div Limb
        s2 == a[2] + b[2] + s3 \div Limb
        s1 == a[1] + b[1] + s2 \div Limb
    IN  IF s1 >= Limb
        THEN [some |-> FALSE, val |-> U64(0)]
        ELSE [some |-> TRUE, val |-> <<s1, s2 % Limb, s3 % Limb, s4 % Limb>>]

\* Get the Borsh container count (le) from buffer
count_from_le(array) ==
    array[1] + array[2] * 256 + array[3] * 65536 + array[4] * 16777216

\* Convert a u32 to an array
transform_u32_to_array_of_u8(x) ==
    LET b1 == (x \div 16777216) % 256
        b2 == (x \div 65536) % 256
        b3 == (x \div 256) % 256
        b4 == x % 256
    IN  <<b4, b3, b2, b1>>

\* ------------------------------------------------------ Pubkey::to_string
\* The base-58 alphabet, as ASCII codes:
\* 123456789ABCDEFGHJKLMNPQRSTUVWXYZabcdefghijkmnopqrstuvwxyz
ALPHABET ==
    <<49, 50, 51, 52, 53, 54, 55, 56, 57,
      65, 66, 67, 68, 69, 70, 71, 72, 74, 75, 76, 77, 78, 80, 81, 82, 83, 84,
      85, 86, 87, 88, 89, 90,
      97, 98, 99, 100, 101, 102, 103, 104, 105, 106, 107, 109, 110, 111, 112,
      113, 114, 115, 116, 117, 118, 119, 120, 121, 122>>

\* The big-endian base-256 number `bytes` (an even number of them) in
\* base-65536 digits.
Pairs(bytes) == [i \in 1..(Len(bytes) \div 2) |-> bytes[2 * i - 1] * 256 + bytes[2 * i]]

\* One long division of the digits lo..hi of the base-65536 number `digits`
\* by 58 * 58, carrying `rem` in from the left: <<quotient digits, remainder>>.
\* The left half is divided first and hands its remainder to the right half.
RECURSIVE DivMod58(_, _, _, _)
DivMod58(digits, lo, hi, rem) ==
    IF lo = hi
    THEN <<<<(rem * 65536 + digits[lo]) \div (58 * 58)>>,
           (rem * 65536 + digits[lo]) % (58 * 58)>>
    ELSE LET left == DivMod58(digits, lo, (lo + hi) \div 2, rem)
             right == DivMod58(digits, (lo + hi) \div 2 + 1, hi, left[2])
         IN  <<left[1] \o right[1], right[2]>>

\* The base-65536 number `digits` divided by 58 * 58.
Divide(digits) == DivMod58(digits, 1, Len(digits), 0)

\* n successive divisions of the number by 58 * 58: the <<quotient digits,
\* remainder>> of each, the first half of them and then the others, which go
\* on from the last quotient of the first half.
RECURSIVE Divisions(_, _)
Divisions(digits, n) ==
    IF n = 1
    THEN <<Divide(digits)>>
    ELSE LET first == Divisions(digits, n \div 2)
             others == Divisions(first[n \div 2][1], n - n \div 2)
         IN  first \o others

\* The bytes at the start of `bytes` that are 0.
LeadingZeros(bytes) ==
    Cardinality({i \in 1..Len(bytes) : \A j \in 1..i : bytes[j] = 0})

\* bs58 encoding: one '1' per leading zero byte, then the digits.
bs58_encode(bytes) ==
    LET digits == Pairs(bytes)
        \* 58 ^ (3 * Len(digits)) exceeds 65536 ^ Len(digits): that many
        \* base-58 digits, two from the remainder of each division
        count == 3 * Len(digits)
        divisions == Divisions(digits, (count + 1) \div 2)
        digit(power) ==
            LET rem == divisions[(power \div 2) + 1][2]
            IN  IF power % 2 = 1 THEN rem \div 58 ELSE rem % 58
        all == <<>> \o [i \in 1..count |-> ALPHABET[digit(count - i) + 1]]
    IN  [i \in 1..LeadingZeros(bytes) |-> ALPHABET[1]]
            \o SubSeq(all, LeadingZeros([i \in 1..count |-> digit(count - i)]) + 1,
                      count)


\* --------------------------------------------------------------- accounts
\* The keys of the records the host passes in: two callers/participants, the
\* registry record, and the rent sysvar (SysvarRent111111111111111111111111111111111).
KeyA == [i \in 1..PUBKEY_BYTES |-> (7 * i + 3) % 256]
KeyP == [i \in 1..PUBKEY_BYTES |-> (29 * i + 101) % 256]
KeyW == [i \in 1..PUBKEY_BYTES |-> IF i = 1 THEN 0 ELSE (13 * i + 5) % 256]
RentId ==
    <<6, 167, 213, 23, 25, 44, 92, 81, 33, 140, 201, 76, 61, 74, 241, 127,
      88, 218, 238, 8, 155, 161, 253, 68, 227, 219, 217, 138, 0, 0, 0, 0>>

\* Pubkey::default()
DefaultPubkey == [i \in 1..PUBKEY_BYTES |-> 0]

\* The n-th of the further participants that fill a registry; the first byte
\* makes every one of them a 44 character identity.
ManyKey(n) == [i \in 1..PUBKEY_BYTES |-> IF i = 1 THEN 128 + n ELSE (n * i) % 256]

\* The bytes one entry of such a participant takes in the serialized map: the
\* key's length, the key, the u64.
EntryBytes == MAP_LENGTH + 44 + WHITELIST_SIZE_BYTES

\* The number of such entries that fit the payload region after the count.
FullCount == (MAP_BYTES - MAP_LENGTH) \div EntryBytes

ManyKeys == {ManyKey(n) : n \in 1..FullCount}

AllKeys == {KeyA, KeyP, KeyW, RentId, DefaultPubkey} \cup ManyKeys

\* key.to_string() of every key in play, encoded once.
Base58Table == [k \in AllKeys |-> bs58_encode(k)] @@ <<>>

to_string(key) == Base58Table[key]

\* ------------------------------------------------- borsh: BTreeMap<String, u64>
\* String order (byte-wise lexicographic), the order of the BTreeMap's keys.
RECURSIVE StrLessFrom(_, _, _)
StrLessFrom(a, b, i) ==
    IF i > Len(b)
    THEN FALSE
    ELSE IF i > Len(a)
    THEN TRUE
    ELSE IF a[i] # b[i]
    THEN a[i] < b[i]
    ELSE StrLessFrom(a, b, i + 1)

StrLess(a, b) == a # b /\ StrLessFrom(a, b, 1)

\* The key in the middle of the keys, in their order.
MiddleKey(keys) ==
    CHOOSE k \in keys :
        Cardinality({x \in keys : StrLess(x, k)}) = Cardinality(keys) \div 2

\* One entry: key length, key bytes, value.
SerializeEntry(k, v) == transform_u32_to_array_of_u8(Len(k)) \o k \o to_le_bytes(v)

\* Mutant: the entries in descending key order.
RECURSIVE SerializeEntries_Descending(_, _)
SerializeEntries_Descending(map, keys) ==
    IF keys = {}
    THEN <<>>
    ELSE LET k == MiddleKey(keys)
         IN  SerializeEntries_Descending(map, {x \in keys : StrLess(k, x)})
                 \o SerializeEntry(k, map[k])
                 \o SerializeEntries_Descending(map, {x \in keys : StrLess(x, k)})

\* The entries of the map, in key order: those below the middle key, the
\* middle key's, those above it.
RECURSIVE SerializeEntries(_, _)
SerializeEntries(map, keys) ==
    IF keys = {}
    THEN <<>>
    ELSE LET k == MiddleKey(keys)
         IN  SerializeEntries(map, {x \in keys : StrLess(x, k)})
                 \o SerializeEntry(k, map[k])
                 \o SerializeEntries(map, {x \in keys : StrLess(k, x)})

\* BorshSerialize::try_to_vec of the map: the entry count, then the entries.
try_to_vec(map) ==
    transform_u32_to_array_of_u8(Cardinality(DOMAIN map))
        \o SerializeEntries(map, DOMAIN map)

EmptyMap == [k \in {} |-> U64(0)]

\* String::from_utf8 on the inputs in play (one-byte code points).
Utf8Valid(bytes) == \A i \in 1..Len(bytes) : bytes[i] < 128

\* The entry at the head of buf: its key's length, whether all of it is there,
\* its key, its value, and the bytes after it.
EntryKeyLen(buf) == count_from_le(SubSeq(buf, 1, 4))
EntryFits(buf) == Len(buf) >= 4 /\ Len(buf) >= 4 + EntryKeyLen(buf) + 8
EntryKey(buf) == SubSeq(buf, 5, 4 + EntryKeyLen(buf))
EntryValue(buf) ==
    from_le_bytes(SubSeq(buf, 5 + EntryKeyLen(buf), 12 + EntryKeyLen(buf)))
EntryRest(buf) == SubSeq(buf, 13 + EntryKeyLen(buf), Len(buf))

\* Reads n entries from buf and collects them into a map: the first half of
\* them, then the others from where the first half ended; a later entry with
\* the same key replaces the earlier one.
RECURSIVE DeserializeEntries(_, _)
DeserializeEntries(buf, n) ==
    IF n = 0
    THEN [ok |-> TRUE, map |-> EmptyMap, rest |-> buf]
    ELSE IF n = 1
    THEN IF EntryFits(buf) /\ Utf8Valid(EntryKey(buf))
         THEN [ok |-> TRUE, map |-> EntryKey(buf) :> EntryValue(buf),
               rest |-> EntryRest(buf)]
         ELSE [ok |-> FALSE, map |-> EmptyMap, rest |-> buf]
    ELSE LET first == DeserializeEntries(buf, n \div 2)
             others == DeserializeEntries(first.rest, n - n \div 2)
         IN  IF ~first.ok
             THEN first
             ELSE [ok |-> others.ok, map |-> others.map @@ first.map,
                   rest |-> others.rest]

\* BorshDeserialize::try_from_slice: fails on short input, on a key that is not
\* UTF-8, and when bytes are left over.
try_from_slice(buf) ==
    IF Len(buf) < 4
    THEN [ok |-> FALSE, map |-> EmptyMap]
    ELSE LET r == DeserializeEntries(SubSeq(buf, 5, Len(buf)),
                                     count_from_le(SubSeq(buf, 1, 4)))
         IN  [ok |-> r.ok /\ r.rest = <<>>, map |-> r.map]

\* ------------------------------------------------------ state.rs: TokenWhitelist
\* TokenWhitelist::default()
DefaultState ==
    [is_initialized |-> FALSE, init_pubkey |-> DefaultPubkey,
     max_whitelist_size |-> U64(0), whitelist_map |-> EmptyMap]

\* Mutant: the flag is never consulted.
is_initialized_AlwaysTrue(self) == TRUE

is_initialized(self) == self.is_initialized

\* An insert that leaves an entry already present as it is (used by the
\* mutant process_add_whitelist_InsertOnly).
add_keypair_KeepExisting(self, key, value) ==
    IF key \in DOMAIN self.whitelist_map
    THEN self
    ELSE [self EXCEPT !.whitelist_map =
             [k \in DOMAIN self.whitelist_map \cup {key} |->
                 IF k = key THEN value ELSE self.whitelist_map[k]]]

add_keypair(self, key, value) ==
    [self EXCEPT !.whitelist_map =
        [k \in DOMAIN self.whitelist_map \cup {key} |->
            IF k = key THEN value ELSE self.whitelist_map[k]]]

\* Mutant: removing an entry that is present empties the map.
drop_key_DropAll(self, key) ==
    IF key \in DOMAIN self.whitelist_map
    THEN [self EXCEPT !.whitelist_map = EmptyMap]
    ELSE self

drop_key(self, key) ==
    [self EXCEPT !.whitelist_map =
        [k \in DOMAIN self.whitelist_map \ {key} |-> self.whitelist_map[k]]]

\* Mutant: every key is reported present.
contains_key_AlwaysTrue(self, key) == TRUE

contains_key(self, key) == key \in DOMAIN self.whitelist_map

\* The record is ACCOUNT_STATE_SPACE bytes long.  It is kept as the sequence of
\* its bytes up to the last one that is not 0: every byte after that is 0.
RECURSIVE LastNonZero(_, _)
LastNonZero(bytes, i) ==
    IF i = 0 \/ bytes[i] # 0 THEN i ELSE LastNonZero(bytes, i - 1)

Trim(bytes) == SubSeq(bytes, 1, LastNonZero(bytes, Len(bytes)))

ZeroBlock == [i \in 1..ACCOUNT_STATE_SPACE |-> 0]

\* Byte i of the record.
ByteAt(buf, i) == IF i <= Len(buf) THEN buf[i] ELSE 0

\* Bytes first..last of the record (first <= last + 1).
Slice(buf, first, last) ==
    IF last <= Len(buf)
    THEN SubSeq(buf, first, last)
    ELSE IF first > Len(buf)
    THEN SubSeq(ZeroBlock, 1, last - first + 1)
    ELSE SubSeq(buf, first, Len(buf)) \o SubSeq(ZeroBlock, 1, last - Len(buf))

\* The record with every byte 0.
ZeroRecord == <<>>

\* Offsets of the fields of the record (the 1-based first byte of each).
OffInit == 1
OffPubkey == OffInit + INITIALIZED_BYTES
OffSize == OffPubkey + PUBKEY_BYTES
OffLen == OffSize + WHITELIST_SIZE_BYTES
OffMap == OffLen + MAP_LENGTH

\* unpack_from_slice: "Panic" where the code aborts (a declared length past the
\* region, a payload that does not deserialize), an error for an init flag that
\* is neither 0 nor 1, else the decoded state.
unpack_from_slice(src) ==
    LET flag == ByteAt(src, OffInit)
        init_pubkey == Slice(src, OffPubkey, OffSize - 1)
        max_whitelist_size == Slice(src, OffSize, OffLen - 1)
        btree_map_len == Slice(src, OffLen, OffMap - 1)
        btree_map_length == count_from_le(btree_map_len)
        dec == try_from_slice(Slice(src, OffMap, OffMap + btree_map_length - 1))
        btree_map == IF btree_map_length > 0 THEN dec.map ELSE EmptyMap
    IN  IF btree_map_length > 0 /\ (btree_map_length > MAP_BYTES \/ ~dec.ok)
        THEN [res |-> "Panic", state |-> DefaultState]
        ELSE IF flag \notin {0, 1}
        THEN [res |-> "InvalidAccountData", state |-> DefaultState]
        ELSE [res |-> "Ok",
              state |-> [is_initialized |-> (flag = 1),
                         init_pubkey |-> init_pubkey,
                         max_whitelist_size |-> from_le_bytes(max_whitelist_size),
                         whitelist_map |-> btree_map]]

\* A pack_into_slice that leaves the declared length as the buffer had it.
pack_into_slice_NoLength(self, dst) ==
    LET data_ser == try_to_vec(self.whitelist_map)
        header == <<IF self.is_initialized THEN 1 ELSE 0>>
                      \o self.init_pubkey
                      \o to_le_bytes(self.max_whitelist_size)
                      \o Slice(dst, OffLen, OffMap - 1)
    IN  IF Len(data_ser) > MAP_BYTES
        THEN [panic |-> TRUE,
              dst |-> Trim(header \o SubSeq(dst, OffMap, Len(dst)))]
        ELSE [panic |-> FALSE,
              dst |-> Trim(header \o data_ser
                               \o SubSeq(dst, OffMap + Len(data_ser), Len(dst)))]

\* pack_into_slice: writes the flag, the authority, the capacity and the declared
\* length, then the serialized map over the start of the region; the rest of the
\* region keeps its bytes.  The copy aborts when the map is longer than the
\* region, after the four header fields were written.
pack_into_slice(self, dst) ==
    LET data_ser == try_to_vec(self.whitelist_map)
        header == <<IF self.is_initialized THEN 1 ELSE 0>>
                      \o self.init_pubkey
                      \o to_le_bytes(self.max_whitelist_size)
                      \o transform_u32_to_array_of_u8(Len(data_ser))
    IN  IF Len(data_ser) > MAP_BYTES
        THEN [panic |-> TRUE,
              dst |-> Trim(header \o SubSeq(dst, OffMap, Len(dst)))]
        ELSE [panic |-> FALSE,
              dst |-> Trim(header \o data_ser
                               \o SubSeq(dst, OffMap + Len(data_ser), Len(dst)))]

\* ---------------------------------------------------------- instruction.rs
InitTokenWhitelist(max_whitelist_size) ==
    [tag |-> "InitTokenWhitelist", amount |-> max_whitelist_size]
AddToWhitelist(allocation_amount) ==
    [tag |-> "AddToWhitelist", amount |-> allocation_amount]
RemoveFromWhitelist == [tag |-> "RemoveFromWhitelist"]
SetAllocationToZero == [tag |-> "SetAllocationToZero"]
CloseWhitelistAccount == [tag |-> "CloseWhitelistAccount"]

\* A pack that writes AddToWhitelist's tag for InitTokenWhitelist and the
\* other way round.
pack_SwappedTags(ix) ==
    CASE ix.tag = "InitTokenWhitelist" -> <<1>> \o to_le_bytes(ix.amount)
      [] ix.tag = "AddToWhitelist" -> <<0>> \o to_le_bytes(ix.amount)
      [] ix.tag = "RemoveFromWhitelist" -> <<2>>
      [] ix.tag = "SetAllocationToZero" -> <<3>>
      [] ix.tag = "CloseWhitelistAccount" -> <<4>>

\* TokenWhitelistInstruction::pack
pack(ix) ==
    CASE ix.tag = "InitTokenWhitelist" -> <<0>> \o to_le_bytes(ix.amount)
      [] ix.tag = "AddToWhitelist" -> <<1>> \o to_le_bytes(ix.amount)
      [] ix.tag = "RemoveFromWhitelist" -> <<2>>
      [] ix.tag = "SetAllocationToZero" -> <<3>>
      [] ix.tag = "CloseWhitelistAccount" -> <<4>>

\* TokenWhitelistInstruction::unpack.  rest.split_at(8) aborts when fewer than
\* 8 bytes follow tag 0 or 1.
unpack(input) ==
    IF input = <<>>
    THEN [res |-> "InvalidInstruction", ix |-> [tag |-> "None"]]
    ELSE LET tag == Head(input)
             rest == Tail(input)
         IN  IF tag \in {0, 1} /\ Len(rest) < 8
             THEN [res |-> "Panic", ix |-> [tag |-> "None"]]
             ELSE CASE tag = 0 ->
                         [res |-> "Ok",
                          ix |-> InitTokenWhitelist(from_le_bytes(SubSeq(rest, 1, 8)))]
                    [] tag = 1 ->
                         [res |-> "Ok",
                          ix |-> AddToWhitelist(from_le_bytes(SubSeq(rest, 1, 8)))]
                    [] tag = 2 -> [res |-> "Ok", ix |-> RemoveFromWhitelist]
                    [] tag = 3 -> [res |-> "Ok", ix |-> SetAllocationToZero]
                    [] tag = 4 -> [res |-> "Ok", ix |-> CloseWhitelistAccount]
                    [] OTHER -> [res |-> "InvalidInstruction", ix |-> [tag |-> "None"]]

\* ------------------------------------------------------------ processor.rs
\* What one invocation leaves behind: its result, the registry record's bytes
\* and every record's balance.
Outcome(res, data, lamports) == [res |-> res, data |-> data, lamports |-> lamports]

\* Rent::minimum_balance of the host's rent sysvar for a record of data_len bytes.
minimum_balance(data_len) == (128 + data_len) * 3480 * 2

\* Rent::is_exempt
is_exempt(balance, data_len) == u64_ge(balance, U64(minimum_balance(data_len)))

\* Mutant: the signer flag of the authority is not checked.
check_authority_NoSigner(authority_info, expected_authority) ==
    IF expected_authority # authority_info.key
    THEN "InvalidAuthority"
    ELSE "Ok"

check_authority(authority_info, expected_authority) ==
    IF expected_authority # authority_info.key
    THEN "InvalidAuthority"
    ELSE IF ~authority_info.is_signer
    THEN "MissingRequiredSignature"
    ELSE "Ok"

\* The state packed over the record: Ok, or the abort of pack_into_slice.
Persist(state, data, lamports) ==
    LET p == pack_into_slice(state, data)
    IN  Outcome(IF p.panic THEN "Panic" ELSE "Ok", p.dst, lamports)

\* Mutant: the balance policy of the registry record is not checked.
process_init_whitelist_NoRentCheck(accounts, max_whitelist_size, data, lamports) ==
    IF Len(accounts) < 1
    THEN Outcome("NotEnoughAccountKeys", data, lamports)
    ELSE IF ~accounts[1].is_signer
    THEN Outcome("MissingRequiredSignature", data, lamports)
    ELSE IF Len(accounts) < 3
    THEN Outcome("NotEnoughAccountKeys", data, lamports)
    ELSE IF accounts[3].key # RentId
    THEN Outcome("InvalidArgument", data, lamports)
    ELSE LET u == unpack_from_slice(data)
             token_whitelist_state ==
                 [u.state EXCEPT !.is_initialized = TRUE,
                                 !.init_pubkey = accounts[1].key,
                                 !.max_whitelist_size = max_whitelist_size]
         IN  IF u.res # "Ok"
             THEN Outcome(u.res, data, lamports)
             ELSE IF is_initialized(u.state)
             THEN Outcome("AccountAlreadyInitialized", data, lamports)
             ELSE Persist(token_whitelist_state, data, lamports)

\* Mutant: a record that is already initialized is initialized again.
process_init_whitelist_Reinit(accounts, max_whitelist_size, data, lamports) ==
    IF Len(accounts) < 1
    THEN Outcome("NotEnoughAccountKeys", data, lamports)
    ELSE IF ~accounts[1].is_signer
    THEN Outcome("MissingRequiredSignature", data, lamports)
    ELSE IF Len(accounts) < 3
    THEN Outcome("NotEnoughAccountKeys", data, lamports)
    ELSE IF accounts[3].key # RentId
    THEN Outcome("InvalidArgument", data, lamports)
    ELSE IF ~is_exempt(lamports[accounts[2].key], ACCOUNT_STATE_SPACE)
    THEN Outcome("NotRentExempt", data, lamports)
    ELSE LET u == unpack_from_slice(data)
             token_whitelist_state ==
                 [u.state EXCEPT !.is_initialized = TRUE,
                                 !.init_pubkey = accounts[1].key,
                                 !.max_whitelist_size = max_whitelist_size]
         IN  IF u.res # "Ok"
             THEN Outcome(u.res, data, lamports)
             ELSE Persist(token_whitelist_state, data, lamports)

\* Mutant: the authority and the capacity are stored, the initialized flag is
\* left as it was.
process_init_whitelist_NoFlag(accounts, max_whitelist_size, data, lamports) ==
    IF Len(accounts) < 1
    THEN Outcome("NotEnoughAccountKeys", data, lamports)
    ELSE IF ~accounts[1].is_signer
    THEN Outcome("MissingRequiredSignature", data, lamports)
    ELSE IF Len(accounts) < 3
    THEN Outcome("NotEnoughAccountKeys", data, lamports)
    ELSE IF accounts[3].key # RentId
    THEN Outcome("InvalidArgument", data, lamports)
    ELSE IF ~is_exempt(lamports[accounts[2].key], ACCOUNT_STATE_SPACE)
    THEN Outcome("NotRentExempt", data, lamports)
    ELSE LET u == unpack_from_slice(data)
             token_whitelist_state ==
                 [u.state EXCEPT !.init_pubkey = accounts[1].key,
                                 !.max_whitelist_size = max_whitelist_size]
         IN  IF u.res # "Ok"
             THEN Outcome(u.res, data, lamports)
             ELSE IF is_initialized(u.state)
             THEN Outcome("AccountAlreadyInitialized", data, lamports)
             ELSE Persist(token_whitelist_state, data, lamports)

process_init_whitelist(accounts, max_whitelist_size, data, lamports) ==
    IF Len(accounts) < 1
    THEN Outcome("NotEnoughAccountKeys", data, lamports)
    ELSE IF ~accounts[1].is_signer
    THEN Outcome("MissingRequiredSignature", data, lamports)
    ELSE IF Len(accounts) < 3
    THEN Outcome("NotEnoughAccountKeys", data, lamports)
    ELSE IF accounts[3].key # RentId
    THEN Outcome("InvalidArgument", data, lamports)
    ELSE IF ~is_exempt(lamports[accounts[2].key], ACCOUNT_STATE_SPACE)
    THEN Outcome("NotRentExempt", data, lamports)
    ELSE LET u == unpack_from_slice(data)
             token_whitelist_state ==
                 [u.state EXCEPT !.is_initialized = TRUE,
                                 !.init_pubkey = accounts[1].key,
                                 !.max_whitelist_size = max_whitelist_size]
         IN  IF u.res # "Ok"
             THEN Outcome(u.res, data, lamports)
             ELSE IF is_initialized(u.state)
             THEN Outcome("AccountAlreadyInitialized", data, lamports)
             ELSE Persist(token_whitelist_state, data, lamports)

\* Mutant: the caller is not compared with the stored authority.
process_add_whitelist_AnySigner(accounts, allocation_amount, data, lamports) ==
    IF Len(accounts) < 1
    THEN Outcome("NotEnoughAccountKeys", data, lamports)
    ELSE IF ~accounts[1].is_signer
    THEN Outcome("MissingRequiredSignature", data, lamports)
    ELSE IF Len(accounts) < 3
    THEN Outcome("NotEnoughAccountKeys", data, lamports)
    ELSE LET u == unpack_from_slice(data)
         IN  IF u.res # "Ok"
             THEN Outcome(u.res, data, lamports)
             ELSE IF ~is_initialized(u.state)
             THEN Outcome("TokenWhitelistNotInit", data, lamports)
             ELSE Persist(add_keypair(u.state, to_string(accounts[3].key),
                                      allocation_amount),
                          data, lamports)

\* Mutant: an entry already present is not overwritten.
process_add_whitelist_InsertOnly(accounts, allocation_amount, data, lamports) ==
    IF Len(accounts) < 1
    THEN Outcome("NotEnoughAccountKeys", data, lamports)
    ELSE IF ~accounts[1].is_signer
    THEN Outcome("MissingRequiredSignature", data, lamports)
    ELSE IF Len(accounts) < 3
    THEN Outcome("NotEnoughAccountKeys", data, lamports)
    ELSE LET u == unpack_from_slice(data)
         IN  IF u.res # "Ok"
             THEN Outcome(u.res, data, lamports)
             ELSE IF ~is_initialized(u.state)
             THEN Outcome("TokenWhitelistNotInit", data, lamports)
             ELSE IF accounts[1].key # u.state.init_pubkey
             THEN Outcome("TokenWhitelistNotOwner", data, lamports)
             ELSE Persist(add_keypair_KeepExisting(u.state, to_string(accounts[3].key),
                                      allocation_amount),
                          data, lamports)

\* Mutant: a new entry is refused once the map holds max_whitelist_size entries.
process_add_whitelist_CapacityCheck(accounts, allocation_amount, data, lamports) ==
    IF Len(accounts) < 1
    THEN Outcome("NotEnoughAccountKeys", data, lamports)
    ELSE IF ~accounts[1].is_signer
    THEN Outcome("MissingRequiredSignature", data, lamports)
    ELSE IF Len(accounts) < 3
    THEN Outcome("NotEnoughAccountKeys", data, lamports)
    ELSE LET u == unpack_from_slice(data)
         IN  IF u.res # "Ok"
             THEN Outcome(u.res, data, lamports)
             ELSE IF ~is_initialized(u.state)
             THEN Outcome("TokenWhitelistNotInit", data, lamports)
             ELSE IF accounts[1].key # u.state.init_pubkey
             THEN Outcome("TokenWhitelistNotOwner", data, lamports)
             ELSE IF /\ to_string(accounts[3].key) \notin DOMAIN u.state.whitelist_map
                     /\ u64_ge(U64(Cardinality(DOMAIN u.state.whitelist_map)),
                               u.state.max_whitelist_size)
             THEN Outcome("TokenWhitelistSizeExceeds", data, lamports)
             ELSE Persist(add_keypair(u.state, to_string(accounts[3].key),
                                      allocation_amount),
                          data, lamports)

process_add_whitelist(accounts, allocation_amount, data, lamports) ==
    IF Len(accounts) < 1
    THEN Outcome("NotEnoughAccountKeys", data, lamports)
    ELSE IF ~accounts[1].is_signer
    THEN Outcome("MissingRequiredSignature", data, lamports)
    ELSE IF Len(accounts) < 3
    THEN Outcome("NotEnoughAccountKeys", data, lamports)
    ELSE LET u == unpack_from_slice(data)
         IN  IF u.res # "Ok"
             THEN Outcome(u.res, data, lamports)
             ELSE IF ~is_initialized(u.state)
             THEN Outcome("TokenWhitelistNotInit", data, lamports)
             ELSE IF accounts[1].key # u.state.init_pubkey
             THEN Outcome("TokenWhitelistNotOwner", data, lamports)
             ELSE Persist(add_keypair(u.state, to_string(accounts[3].key),
                                      allocation_amount),
                          data, lamports)

process_remove_whitelist(accounts, data, lamports) ==
    IF Len(accounts) < 1
    THEN Outcome("NotEnoughAccountKeys", data, lamports)
    ELSE IF ~accounts[1].is_signer
    THEN Outcome("MissingRequiredSignature", data, lamports)
    ELSE IF Len(accounts) < 3
    THEN Outcome("NotEnoughAccountKeys", data, lamports)
    ELSE LET u == unpack_from_slice(data)
         IN  IF u.res # "Ok"
             THEN Outcome(u.res, data, lamports)
             ELSE IF ~is_initialized(u.state)
             THEN Outcome("TokenWhitelistNotInit", data, lamports)
             ELSE IF accounts[1].key # u.state.init_pubkey
             THEN Outcome("TokenWhitelistNotOwner", data, lamports)
             ELSE Persist(drop_key(u.state, to_string(accounts[3].key)),
                          data, lamports)

\* Mutant: the caller is compared with the stored authority, not with the target.
process_set_allocation_to_zero_AuthorityOnly(accounts, data, lamports) ==
    IF Len(accounts) < 1
    THEN Outcome("NotEnoughAccountKeys", data, lamports)
    ELSE IF ~accounts[1].is_signer
    THEN Outcome("MissingRequiredSignature", data, lamports)
    ELSE IF Len(accounts) < 3
    THEN Outcome("NotEnoughAccountKeys", data, lamports)
    ELSE LET u == unpack_from_slice(data)
             whitelist_amount == U64(0)
         IN  IF u.res # "Ok"
             THEN Outcome(u.res, data, lamports)
             ELSE IF ~is_initialized(u.state)
             THEN Outcome("TokenWhitelistNotInit", data, lamports)
             ELSE IF accounts[1].key # u.state.init_pubkey
             THEN Outcome("NotOwner", data, lamports)
             ELSE IF ~contains_key(u.state, to_string(accounts[3].key))
             THEN Outcome("InvalidAccountData", data, lamports)
             ELSE Persist(add_keypair(u.state, to_string(accounts[3].key),
                                      whitelist_amount),
                          data, lamports)

process_set_allocation_to_zero(accounts, data, lamports) ==
    IF Len(accounts) < 1
    THEN Outcome("NotEnoughAccountKeys", data, lamports)
    ELSE IF ~accounts[1].is_signer
    THEN Outcome("MissingRequiredSignature", data, lamports)
    ELSE IF Len(accounts) < 3
    THEN Outcome("NotEnoughAccountKeys", data, lamports)
    ELSE LET u == unpack_from_slice(data)
             whitelist_amount == U64(0)
         IN  IF u.res # "Ok"
             THEN Outcome(u.res, data, lamports)
             ELSE IF ~is_initialized(u.state)
             THEN Outcome("TokenWhitelistNotInit", data, lamports)
             ELSE IF accounts[1].key # accounts[3].key
             THEN Outcome("NotOwner", data, lamports)
             ELSE IF ~contains_key(u.state, to_string(accounts[3].key))
             THEN Outcome("InvalidAccountData", data, lamports)
             ELSE Persist(add_keypair(u.state, to_string(accounts[3].key),
                                      whitelist_amount),
                          data, lamports)

\* The destination's balance is written first, then the registry record's; when
\* both are the same record the second write is the one that stays.
\* Mutant: the registry record's balance is zeroed before the checked addition.
process_close_whitelist_account_DrainFirst(accounts, data, lamports) ==
    IF Len(accounts) < 3
    THEN Outcome("NotEnoughAccountKeys", data, lamports)
    ELSE LET u == unpack_from_slice(data)
             auth == check_authority(accounts[1], u.state.init_pubkey)
             destination_starting_lamports == lamports[accounts[3].key]
             account_lamports == lamports[accounts[2].key]
             sum == checked_add(destination_starting_lamports, account_lamports)
             credited == [lamports EXCEPT ![accounts[3].key] = sum.val]
             drained == [credited EXCEPT ![accounts[2].key] = U64(0)]
         IN  IF u.res # "Ok"
             THEN Outcome(u.res, data, lamports)
             ELSE IF ~is_initialized(u.state)
             THEN Outcome("TokenWhitelistNotInit", data, lamports)
             ELSE IF auth # "Ok"
             THEN Outcome(auth, data, lamports)
             ELSE IF ~sum.some
             THEN Outcome("Overflow", data,
                          [lamports EXCEPT ![accounts[2].key] = U64(0)])
             ELSE Outcome("Ok", ZeroRecord, drained)

\* A close that clears the initialized flag and leaves the other bytes.
process_close_whitelist_account_FlagOnly(accounts, data, lamports) ==
    IF Len(accounts) < 3
    THEN Outcome("NotEnoughAccountKeys", data, lamports)
    ELSE LET u == unpack_from_slice(data)
             auth == check_authority(accounts[1], u.state.init_pubkey)
             sum == checked_add(lamports[accounts[3].key], lamports[accounts[2].key])
             credited == [lamports EXCEPT ![accounts[3].key] = sum.val]
             drained == [credited EXCEPT ![accounts[2].key] = U64(0)]
         IN  IF u.res # "Ok"
             THEN Outcome(u.res, data, lamports)
             ELSE IF ~is_initialized(u.state)
             THEN Outcome("TokenWhitelistNotInit", data, lamports)
             ELSE IF auth # "Ok"
             THEN Outcome(auth, data, lamports)
             ELSE IF ~sum.some
             THEN Outcome("Overflow", data, lamports)
             ELSE Outcome("Ok", Trim([data EXCEPT ![OffInit] = 0]), drained)

process_close_whitelist_account(accounts, data, lamports) ==
    IF Len(accounts) < 3
    THEN Outcome("NotEnoughAccountKeys", data, lamports)
    ELSE LET u == unpack_from_slice(data)
             auth == check_authority(accounts[1], u.state.init_pubkey)
             destination_starting_lamports == lamports[accounts[3].key]
             account_lamports == lamports[accounts[2].key]
             sum == checked_add(destination_starting_lamports, account_lamports)
             credited == [lamports EXCEPT ![accounts[3].key] = sum.val]
             drained == [credited EXCEPT ![accounts[2].key] = U64(0)]
         IN  IF u.res # "Ok"
             THEN Outcome(u.res, data, lamports)
             ELSE IF ~is_initialized(u.state)
             THEN Outcome("TokenWhitelistNotInit", data, lamports)
             ELSE IF auth # "Ok"
             THEN Outcome(auth, data, lamports)
             ELSE IF ~sum.some
             THEN Outcome("Overflow", data, lamports)
             ELSE Outcome("Ok", ZeroRecord, drained)

\* Processor::process
process(accounts, instruction_data, data, lamports) ==
    LET i == unpack(instruction_data)
    IN  IF i.res # "Ok"
        THEN Outcome(i.res, data, lamports)
        ELSE CASE i.ix.tag = "InitTokenWhitelist" ->
                    process_init_whitelist(accounts, i.ix.amount, data, lamports)
               [] i.ix.tag = "AddToWhitelist" ->
                    process_add_whitelist(accounts, i.ix.amount, data, lamports)
               [] i.ix.tag = "RemoveFromWhitelist" ->
                    process_remove_whitelist(accounts, data, lamports)
               [] i.ix.tag = "SetAllocationToZero" ->
                    process_set_allocation_to_zero(accounts, data, lamports)
               [] i.ix.tag = "CloseWhitelistAccount" ->
                    process_close_whitelist_account(accounts, data, lamports)

\* ------------------------------------------------------------ the machine
VARIABLES
    data,       \* the registry record's bytes
    lamports,   \* the balance of every record, by key
    last,       \* the latest invocation: its inputs and its result
    funded,     \* the host has funded the record again after a close
    codec       \* a codec exercised on its own: its input and its output

vars == <<data, lamports, last, funded, codec>>

\* The inputs the invocations draw from.
Callers == {KeyA, KeyP}
Participants == {KeyA, KeyP}
Destinations == {KeyA, KeyP, KeyW}
Capacities == {U64(0), U64(100)}
Allocations == {U64(250)}

AccountInfo(key, signer) == [key |-> key, is_signer |-> signer]

\* The account lists of an invocation: the caller (with or without its proof),
\* the registry record and a third record, or a shorter list.
AccountLists(thirds) ==
    {<<>>, <<AccountInfo(KeyA, TRUE)>>,
     <<AccountInfo(KeyA, TRUE), AccountInfo(KeyW, FALSE)>>}
        \cup UNION {{<<AccountInfo(c, s), AccountInfo(KeyW, FALSE),
                       AccountInfo(t, FALSE)>> : c \in Callers, s \in BOOLEAN} :
                    t \in thirds}

\* Instruction data that no pack produces: empty, an unknown tag, a payload cut
\* short, and a trailing byte.
RawInputs == {<<>>, <<5>>, <<0, 100, 0, 0>>, <<1>>, <<2, 7>>}

NoCall == [instruction_data |-> <<>>, accounts |-> <<>>, res |-> "None"]
Idle == [stage |-> "idle"]

\* The record as the host hands it over: allocated, all zero, and funded with
\* the balance the retention policy asks for.
Funded ==
    [k \in {KeyA, KeyP, KeyW, RentId} |->
        CASE k = KeyW -> U64(minimum_balance(ACCOUNT_STATE_SPACE))
          [] k = KeyP -> U64_MAX
          [] OTHER -> U64(1)]

Init ==
    /\ data = ZeroRecord
    /\ lamports = Funded
    /\ last = NoCall
    /\ funded = FALSE
    /\ codec = Idle

\* One invocation of the entrypoint, run to completion.
Invoke(accounts, instruction_data) ==
    \E out \in {process(accounts, instruction_data, data, lamports)} :
        /\ data' = out.data
        /\ lamports' = out.lamports
        /\ last' = [instruction_data |-> instruction_data,
                    accounts |-> accounts,
                    res |-> out.res]
        /\ UNCHANGED <<funded, codec>>

InvokeInit ==
    \E accounts \in AccountLists({RentId, KeyA}), c \in Capacities :
        Invoke(accounts, pack(InitTokenWhitelist(c)))

InvokeAdd ==
    \E accounts \in AccountLists(Participants), a \in Allocations :
        Invoke(accounts, pack(AddToWhitelist(a)))

InvokeRemove ==
    \E accounts \in AccountLists(Participants) :
        Invoke(accounts, pack(RemoveFromWhitelist))

InvokeZero ==
    \E accounts \in AccountLists(Participants) :
        Invoke(accounts, pack(SetAllocationToZero))

InvokeClose ==
    \E accounts \in AccountLists(Destinations) :
        Invoke(accounts, pack(CloseWhitelistAccount))

InvokeRaw ==
    \E input \in RawInputs :
        Invoke(<<AccountInfo(KeyA, TRUE), AccountInfo(KeyW, FALSE),
                 AccountInfo(KeyP, FALSE)>>, input)

Next ==
    \/ InvokeInit
    \/ InvokeAdd
    \/ InvokeRemove
    \/ InvokeZero
    \/ InvokeClose
    \/ InvokeRaw

Spec == Init /\ [][Next]_vars

\* a - b on u64, for a >= b.
u64_sub(a, b) ==
    LET d4 == a[4] - b[4]
        d3 == a[3] - b[3] - (IF d4 < 0 THEN 1 ELSE 0)
        d2 == a[2] - b[2] - (IF d3 < 0 THEN 1 ELSE 0)
        d1 == a[1] - b[1] - (IF d2 < 0 THEN 1 ELSE 0)
    IN  <<d1, d2 % Limb, d3 % Limb, d4 % Limb>>

\* The host funds the record again: once the record's balance has fallen
\* below what the retention policy asks for, KeyA transfers that amount to it.
HostFund ==
    LET amount == U64(minimum_balance(ACCOUNT_STATE_SPACE))
    IN  /\ ~is_exempt(lamports[KeyW], ACCOUNT_STATE_SPACE)
        /\ u64_ge(lamports[KeyA], amount)
        /\ lamports' = [lamports EXCEPT
                            ![KeyW] = checked_add(lamports[KeyW], amount).val,
                            ![KeyA] = u64_sub(lamports[KeyA], amount)]
        /\ funded' = TRUE
        /\ last' = NoCall
        /\ UNCHANGED <<data, codec>>

NextReuse ==
    \/ Next
    \/ HostFund

SpecReuse == Init /\ [][NextReuse]_vars

\* ------------------------------------------------ the codecs on their own
\* The u64 payloads of the instructions: every limb at its ends and around
\* the byte boundary.
U64Limbs == {0, 1, 255, 256, Limb - 1}
Payloads == {<<a, b, c, d>> : a, b, c, d \in U64Limbs}

Instructions ==
    {InitTokenWhitelist(p) : p \in Payloads}
        \cup {AddToWhitelist(p) : p \in Payloads}
        \cup {RemoveFromWhitelist, SetAllocationToZero, CloseWhitelistAccount}

\* Registry values: maps over the empty string, a one-character string and two
\* identities, a map whose serialization fills the payload region exactly, one
\* that is a byte longer, and the registry of FullCount participants.
LongKey(n) == SubSeq([i \in 1..ACCOUNT_STATE_SPACE |-> 97], 1, n)
OneEntry(k, v) == [x \in {k} |-> v]
BoundaryMap == OneEntry(LongKey(MAP_BYTES - 2 * MAP_LENGTH - WHITELIST_SIZE_BYTES), U64(250))
OversizeMap == OneEntry(LongKey(MAP_BYTES - 2 * MAP_LENGTH - WHITELIST_SIZE_BYTES + 1), U64(250))
FullMap == [k \in {to_string(key) : key \in ManyKeys} |-> U64(250)]

EntryKeys == {<<>>, <<98>>, to_string(KeyA), to_string(KeyP)}
EntryValues == {U64(0), <<1, 2, 3, 4>>}
Maps ==
    UNION {[ks -> EntryValues] : ks \in SUBSET EntryKeys}
        \cup {BoundaryMap, OversizeMap, FullMap}

Registries ==
    {[is_initialized |-> f, init_pubkey |-> a,
      max_whitelist_size |-> c, whitelist_map |-> m] :
        f \in BOOLEAN, a \in {DefaultPubkey, KeyA}, c \in {U64(0), U64_MAX},
        m \in Maps}

\* The record of the registry of FullCount participants, KeyA its authority.
FullRecord ==
    pack_into_slice([is_initialized |-> TRUE, init_pubkey |-> KeyA,
                     max_whitelist_size |-> U64(100), whitelist_map |-> FullMap],
                    ZeroRecord).dst

\* What the buffer holds before an encode: zeros, the record of a registry
\* with FullCount entries, or 255 in every byte.
PriorBuffers ==
    {ZeroRecord, FullRecord, [i \in 1..ACCOUNT_STATE_SPACE |-> 255]}

\* A record with the given flag byte, declared length and payload, KeyA its
\* authority.
RawRecord(flag, length, payload) ==
    Trim(<<flag>> \o KeyA \o to_le_bytes(U64(100))
             \o transform_u32_to_array_of_u8(length) \o payload)

\* Records no encode writes: a flag byte of 2, a declared length above
\* MAP_BYTES, a payload that ends before its entry, a payload with bytes left
\* over, a key that is not UTF-8, and a flag byte of 2 on an unreadable map.
CorruptBuffers ==
    {RawRecord(2, 0, <<>>),
     RawRecord(1, MAP_BYTES + 1, <<>>),
     RawRecord(1, 4, <<1, 0, 0, 0>>),
     RawRecord(1, 8, <<0, 0, 0, 0, 7, 7, 7, 7>>),
     RawRecord(1, 17, <<1, 0, 0, 0, 1, 0, 0, 0, 255, 9, 0, 0, 0, 0, 0, 0, 0>>),
     RawRecord(2, 4, <<1, 0, 0, 0>>)}

Buffers == {ZeroRecord, FullRecord} \cup CorruptBuffers

InitCodec ==
    /\ lamports = Funded
    /\ last = NoCall
    /\ funded = FALSE
    /\ \/ /\ data = ZeroRecord
          /\ codec \in {[stage |-> "instruction", ix |-> i] : i \in Instructions}
       \/ /\ data \in PriorBuffers
          /\ codec \in {[stage |-> "registry", r |-> r] : r \in Registries}
       \/ /\ data \in Buffers
          /\ codec = [stage |-> "buffer"]

\* TokenWhitelistInstruction::pack of the instruction drawn.
PackInstruction ==
    /\ codec.stage = "instruction"
    /\ codec' = [stage |-> "packed", ix |-> codec.ix, bytes |-> pack(codec.ix)]
    /\ UNCHANGED <<data, lamports, last, funded>>

\* TokenWhitelistInstruction::unpack of the bytes pack returned.
UnpackInstruction ==
    /\ codec.stage = "packed"
    /\ codec' = [stage |-> "unpacked", ix |-> codec.ix, bytes |-> codec.bytes,
                 out |-> unpack(codec.bytes)]
    /\ UNCHANGED <<data, lamports, last, funded>>

\* pack_into_slice of the registry drawn, over the buffer drawn.
PackRecord ==
    /\ codec.stage = "registry"
    /\ \E p \in {pack_into_slice(codec.r, data)} :
           /\ data' = p.dst
           /\ codec' = [stage |-> "written", r |-> codec.r, prior |-> data,
                        panic |-> p.panic]
    /\ UNCHANGED <<lamports, last, funded>>

\* unpack_from_slice of the buffer: the one pack_into_slice has written, or
\* the one drawn.
UnpackRecord ==
    /\ \/ codec.stage = "written" /\ ~codec.panic
       \/ codec.stage = "buffer" /\ last = NoCall
    /\ codec' = [stage |-> "read", from |-> codec, out |-> unpack_from_slice(data)]
    /\ UNCHANGED <<data, lamports, last, funded>>

\* One invocation of the entrypoint by KeyA, with its proof, on the record
\* drawn.
InvokeOnBuffer ==
    /\ codec.stage = "buffer"
    /\ last = NoCall
    /\ \E third \in {RentId, KeyA, KeyP},
          ix \in {InitTokenWhitelist(U64(100)), AddToWhitelist(U64(250)),
                  RemoveFromWhitelist, SetAllocationToZero, CloseWhitelistAccount} :
           Invoke(<<AccountInfo(KeyA, TRUE), AccountInfo(KeyW, FALSE),
                    AccountInfo(third, FALSE)>>, pack(ix))

NextCodec ==
    \/ PackInstruction
    \/ UnpackInstruction
    \/ PackRecord
    \/ UnpackRecord
    \/ InvokeOnBuffer

SpecCodec == InitCodec /\ [][NextCodec]_vars

\* ------------------------------------------------ two orders of AddToWhitelist
\* The allocations of the two entries added in either order.
OrderAllocations == {U64(0), U64(250)}

\* The accounts of an AddToWhitelist by caller, with its proof, for target.
AddCall(caller, target) ==
    <<AccountInfo(caller, TRUE), AccountInfo(KeyW, FALSE), AccountInfo(target, FALSE)>>

\* From a record the program has reached, two AddToWhitelist for distinct
\* participants are about to run in both orders: on the record in the order
\* given, on a copy of it (mirror) in the other order.
Fork ==
    /\ codec = Idle
    /\ \E c \in Callers, P \in Participants, b \in OrderAllocations :
           \E Q \in Participants \ {P} :
               codec' = [stage |-> "fork", start |-> data, caller |-> c,
                         adds |-> <<[key |-> P, amount |-> U64(250)],
                                    [key |-> Q, amount |-> b]>>,
                         mirror |-> data, res |-> <<>>]
    /\ UNCHANGED <<data, lamports, last, funded>>

\* The next AddToWhitelist of the pair on the record, and the other one of the
\* pair on the copy.
AddInOrder ==
    /\ codec.stage = "fork"
    /\ Len(codec.res) < 2
    /\ LET mine == codec.adds[Len(codec.res) + 1]
           theirs == codec.adds[2 - Len(codec.res)]
       IN  \E out \in {process(AddCall(codec.caller, mine.key),
                                pack(AddToWhitelist(mine.amount)), data, lamports)},
              other \in {process(AddCall(codec.caller, theirs.key),
                                  pack(AddToWhitelist(theirs.amount)),
                                  codec.mirror, lamports)} :
               /\ data' = out.data
               /\ lamports' = out.lamports
               /\ last' = [instruction_data |-> pack(AddToWhitelist(mine.amount)),
                           accounts |-> AddCall(codec.caller, mine.key),
                           res |-> out.res]
               /\ codec' = [codec EXCEPT !.mirror = other.data,
                                         !.res = Append(@, <<out.res, other.res>>)]
    /\ UNCHANGED funded

NextOrder ==
    \/ codec = Idle /\ Next
    \/ Fork
    \/ AddInOrder

SpecOrder == Init /\ [][NextOrder]_vars

\* ------------------------------------------------------------- the claims
\* The registry a record decodes to.
Decode(buf) == unpack_from_slice(buf).state

\* The operation an invocation asked for: the tag of its instruction, "None"
\* when the instruction data does not decode.
Tag(call) == unpack(call.instruction_data).ix.tag

\* The u64 carried by an InitTokenWhitelist or AddToWhitelist instruction.
Amount(call) == unpack(call.instruction_data).ix.amount

\* The invocation supplies the three records the operation documents.
Full(call) == Len(call.accounts) = 3

CallerKey(call) == call.accounts[1].key
HasProof(call) == call.accounts[1].is_signer
ThirdKey(call) == call.accounts[3].key

\* The participant identity of the third record, as the map's key.
Target(call) == to_string(ThirdKey(call))

\* The invocation returned an error value.
IsError(res) == res \notin {"Ok", "Panic", "None"}

Untouched == data' = data /\ lamports' = lamports

\* The authority, the capacity and the initialized flag of two registries agree.
SameHeader(r1, r2) ==
    /\ r1.is_initialized = r2.is_initialized
    /\ r1.init_pubkey = r2.init_pubkey
    /\ r1.max_whitelist_size = r2.max_whitelist_size

\* Two maps agree on every key but k.
SameButFor(m1, m2, k) ==
    /\ DOMAIN m1 \ {k} = DOMAIN m2 \ {k}
    /\ \A x \in DOMAIN m1 \ {k} : m1[x] = m2[x]

\* C1: atomicity.  Whenever one of the five operations (or a malformed
\* instruction) returns an error, the registry record's bytes and every
\* record's balance, the destination's included, are what they were before
\* the call.
C1_Atomicity == [][IsError(last'.res) => Untouched]_vars

\* C1 witness: CloseRegistry by the authority, with its proof, failed with
\* Overflow at the last check before the balances are written.
C1_Witness ==
    /\ Tag(last) = "CloseWhitelistAccount"
    /\ last.res = "Overflow"
    /\ Decode(data).is_initialized

\* C2: on an initialized registry, AddEntry and RemoveEntry by a caller with
\* proof whose identity differs from the stored authority fail with
\* TokenWhitelistNotOwner, CloseRegistry by such a caller fails with
\* InvalidAuthority, and the record is unchanged; every successful AddEntry,
\* RemoveEntry or CloseRegistry had caller = stored authority.
C2_OnlyAuthority ==
    [][/\ ( /\ Full(last')
            /\ HasProof(last')
            /\ Decode(data).is_initialized
            /\ CallerKey(last') # Decode(data).init_pubkey )
          => /\ Tag(last') \in {"AddToWhitelist", "RemoveFromWhitelist"}
                  => last'.res = "TokenWhitelistNotOwner" /\ Untouched
             /\ Tag(last') = "CloseWhitelistAccount"
                  => last'.res = "InvalidAuthority" /\ Untouched
       /\ ( /\ last'.res = "Ok"
            /\ Tag(last') \in {"AddToWhitelist", "RemoveFromWhitelist",
                                "CloseWhitelistAccount"} )
          => CallerKey(last') = Decode(data).init_pubkey
      ]_vars

\* C2 witness: AddEntry by a signer who is not the authority was refused on an
\* initialized registry.
C2_Witness ==
    /\ Tag(last) = "AddToWhitelist"
    /\ last.res = "TokenWhitelistNotOwner"
    /\ HasProof(last)
    /\ Decode(data).is_initialized
    /\ CallerKey(last) # Decode(data).init_pubkey

\* The same invocation, with the caller's proof present.
WithProof(call) == [call.accounts EXCEPT ![1].is_signer = TRUE]

\* C3: an invocation of any of the five operations whose caller record is
\* missing or is not a signer returns an error and changes no record and no
\* balance; the error is the missing-signature one when the same invocation
\* with the proof present succeeds.
C3_ProofRequired ==
    [][( /\ Tag(last') # "None"
         /\ (last'.accounts = <<>> \/ ~HasProof(last')) )
       => /\ IsError(last'.res)
          /\ Untouched
          /\ ( /\ last'.accounts # <<>>
               /\ process(WithProof(last'), last'.instruction_data,
                          data, lamports).res = "Ok" )
             => last'.res = "MissingRequiredSignature"
      ]_vars

\* C3 witness: CloseRegistry by the stored authority without its proof, to a
\* destination the balance fits in, was refused for the missing signature.
C3_Witness ==
    /\ Tag(last) = "CloseWhitelistAccount"
    /\ last.res = "MissingRequiredSignature"
    /\ CallerKey(last) = Decode(data).init_pubkey
    /\ ~HasProof(last)
    /\ ThirdKey(last) = KeyA

\* C4: AddEntry, RemoveEntry, ZeroAllocation and CloseRegistry invoked with
\* proof on a record whose initialized flag is false fail with
\* TokenWhitelistNotInit and leave the record and all balances unchanged; a
\* call that succeeds on an uninitialized record is an InitRegistry.
C4_NotInit ==
    [][~Decode(data).is_initialized
       => /\ ( /\ Full(last')
               /\ HasProof(last')
               /\ Tag(last') \in {"AddToWhitelist", "RemoveFromWhitelist",
                                   "SetAllocationToZero", "CloseWhitelistAccount"} )
             => last'.res = "TokenWhitelistNotInit" /\ Untouched
          /\ last'.res = "Ok" => Tag(last') = "InitTokenWhitelist"
      ]_vars

\* C4 witness: ZeroAllocation by a signer for itself was refused on the
\* uninitialized record.
C4_Witness ==
    /\ Tag(last) = "SetAllocationToZero"
    /\ last.res = "TokenWhitelistNotInit"
    /\ HasProof(last)
    /\ CallerKey(last) = ThirdKey(last)
    /\ ~Decode(data).is_initialized

\* C5: InitRegistry(capacity), invoked with the registry record and the rent
\* record, succeeds exactly when the caller is a signer, the registry record
\* meets the balance policy and it is not yet initialized; on success
\* initialized = true, authority = caller, capacity = the given capacity and
\* the entries are unchanged; with proof it fails with NotRentExempt when the
\* policy is not met, and with AccountAlreadyInitialized when the policy is met
\* and initialized is already true.
C5_Init ==
    [][( /\ Tag(last') = "InitTokenWhitelist"
         /\ Full(last')
         /\ ThirdKey(last') = RentId )
       => LET exempt == u64_ge(lamports[KeyW], U64(minimum_balance(ACCOUNT_STATE_SPACE)))
              before == Decode(data)
              after == Decode(data')
          IN  /\ last'.res = "Ok"
                   <=> HasProof(last') /\ exempt /\ ~before.is_initialized
              /\ last'.res = "Ok"
                   => /\ after.is_initialized
                      /\ after.init_pubkey = CallerKey(last')
                      /\ after.max_whitelist_size = Amount(last')
                      /\ after.whitelist_map = before.whitelist_map
                      /\ lamports' = lamports
              /\ HasProof(last') /\ ~exempt => last'.res = "NotRentExempt"
              /\ HasProof(last') /\ exempt /\ before.is_initialized
                   => last'.res = "AccountAlreadyInitialized"
      ]_vars

\* C5 witness: InitRegistry(100) by P succeeded.
C5_Witness ==
    /\ Tag(last) = "InitTokenWhitelist"
    /\ last.res = "Ok"
    /\ Decode(data) = [is_initialized |-> TRUE, init_pubkey |-> KeyP,
                       max_whitelist_size |-> U64(100), whitelist_map |-> EmptyMap]

\* C6: once the registry is initialized, its authority, capacity and
\* initialized flag stay what they are through every invocation, successful
\* or failing, by any caller, other than a CloseRegistry that succeeds; a
\* second InitRegistry by another signer does not take the authority over.
C6_HeaderStable ==
    [][( /\ Decode(data).is_initialized
         /\ ~(Tag(last') = "CloseWhitelistAccount" /\ last'.res = "Ok") )
       => /\ SameHeader(Decode(data'), Decode(data))
          /\ Slice(data', OffInit, OffLen - 1) = Slice(data, OffInit, OffLen - 1)
          /\ Tag(last') = "InitTokenWhitelist" => last'.res # "Ok"
      ]_vars

\* C6 witness: on a registry with an entry, an InitRegistry by a signer other
\* than the authority, with another capacity, was refused.
C6_Witness ==
    /\ Tag(last) = "InitTokenWhitelist"
    /\ last.res = "AccountAlreadyInitialized"
    /\ HasProof(last)
    /\ Decode(data).is_initialized
    /\ CallerKey(last) # Decode(data).init_pubkey
    /\ Amount(last) # Decode(data).max_whitelist_size
    /\ Decode(data).whitelist_map # EmptyMap

\* C7: a successful AddEntry(allocation) for target P leaves entries[P] =
\* allocation, whether P was present or not, and every other entry, the
\* authority, the capacity and the initialized flag as they were.
C7_Add ==
    [][( /\ Tag(last') = "AddToWhitelist"
         /\ last'.res = "Ok" )
       => LET before == Decode(data)
              after == Decode(data')
              P == Target(last')
          IN  /\ P \in DOMAIN after.whitelist_map
              /\ after.whitelist_map[P] = Amount(last')
              /\ SameButFor(after.whitelist_map, before.whitelist_map, P)
              /\ SameHeader(after, before)
              /\ after.is_initialized
              /\ lamports' = lamports
      ]_vars

\* C7 witness: the scenario Init(capacity = 100) by A, then AddEntry(250) for
\* P: entries = {P: 250}, capacity = 100, initialized = true.
C7_Witness ==
    /\ Tag(last) = "AddToWhitelist"
    /\ last.res = "Ok"
    /\ ThirdKey(last) = KeyP
    /\ Decode(data) = [is_initialized |-> TRUE, init_pubkey |-> KeyA,
                       max_whitelist_size |-> U64(100),
                       whitelist_map |-> [k \in {to_string(KeyP)} |-> U64(250)]]

\* C8: RemoveEntry for target P by the authority, with proof, on an
\* initialized registry succeeds whether or not P is present: afterwards P is
\* not in entries, every other entry and the header are as they were, and when
\* P was absent the decoded registry is the one before the call.
C8_Remove ==
    [][( /\ Tag(last') = "RemoveFromWhitelist"
         /\ Full(last')
         /\ HasProof(last')
         /\ Decode(data).is_initialized
         /\ CallerKey(last') = Decode(data).init_pubkey )
       => LET before == Decode(data)
              after == Decode(data')
              P == Target(last')
          IN  /\ last'.res = "Ok"
              /\ P \notin DOMAIN after.whitelist_map
              /\ SameButFor(after.whitelist_map, before.whitelist_map, P)
              /\ SameHeader(after, before)
              /\ lamports' = lamports
              /\ P \notin DOMAIN before.whitelist_map => after = before
      ]_vars

\* C8 witness: RemoveEntry succeeded on a registry whose payload region past
\* the entry count holds no byte ever written: no entry was ever added, so the
\* target was absent.
C8_Witness ==
    /\ Tag(last) = "RemoveFromWhitelist"
    /\ last.res = "Ok"
    /\ Decode(data).is_initialized
    /\ Len(data) < OffMap

\* C9: ZeroAllocation by a signer for its own identity P on an initialized
\* registry: if P is absent from entries it fails with InvalidAccountData and
\* the record is unchanged (no entry is created); if P is present it succeeds,
\* entries[P] becomes 0 and every other entry, the key set and the header are
\* unchanged.
C9_Zero ==
    [][( /\ Tag(last') = "SetAllocationToZero"
         /\ Full(last')
         /\ HasProof(last')
         /\ CallerKey(last') = ThirdKey(last')
         /\ Decode(data).is_initialized )
       => LET before == Decode(data)
              after == Decode(data')
              P == Target(last')
          IN  IF P \notin DOMAIN before.whitelist_map
              THEN last'.res = "InvalidAccountData" /\ Untouched
              ELSE /\ last'.res = "Ok"
                   /\ DOMAIN after.whitelist_map = DOMAIN before.whitelist_map
                   /\ after.whitelist_map[P] = U64(0)
                   /\ SameButFor(after.whitelist_map, before.whitelist_map, P)
                   /\ SameHeader(after, before)
                   /\ lamports' = lamports
      ]_vars

\* C9 witness: ZeroAllocation succeeded on a registry of two entries, and the
\* other entry still holds its allocation.
C9_Witness ==
    /\ Tag(last) = "SetAllocationToZero"
    /\ last.res = "Ok"
    /\ LET m == Decode(data).whitelist_map
       IN  /\ Cardinality(DOMAIN m) = 2
           /\ m[Target(last)] = U64(0)
           /\ \E k \in DOMAIN m : k # Target(last) /\ m[k] = U64(250)

C10_AuthorityRefused ==
    /\ Tag(last) = "SetAllocationToZero"
    /\ last.res = "NotOwner"
    /\ HasProof(last)
    /\ CallerKey(last) = Decode(data).init_pubkey
    /\ Target(last) \in DOMAIN Decode(data).whitelist_map

\* The whole record, all ACCOUNT_STATE_SPACE bytes of it, is zero.
AllZero(buf) == Slice(buf, 1, ACCOUNT_STATE_SPACE) = ZeroBlock

\* a + b exceeds the largest u64: a is above the complement of b.
Exceeds(a, b) == ~u64_ge([i \in 1..4 |-> Limb - 1 - b[i]], a)

\* C11: after every successful CloseRegistry, whichever record is named as the
\* destination, the destination's balance is its prior balance plus the
\* registry record's prior balance, the registry record's balance is 0, and
\* all ACCOUNT_STATE_SPACE bytes of the registry record are 0.
C11_CloseDrains ==
    [][( /\ Tag(last') = "CloseWhitelistAccount"
         /\ last'.res = "Ok" )
       => /\ CallerKey(last') = Decode(data).init_pubkey
          /\ lamports'[ThirdKey(last')] =
                 checked_add(lamports[ThirdKey(last')], lamports[KeyW]).val
          /\ lamports'[KeyW] = U64(0)
          /\ AllZero(data')
      ]_vars

\* The close that C11 does not survive: the destination named is the registry
\* record itself, whose balance ends at 0 instead of twice its prior balance.
C11_ClosedOntoItself ==
    /\ Tag(last) = "CloseWhitelistAccount"
    /\ last.res = "Ok"
    /\ ThirdKey(last) = KeyW
    /\ lamports[KeyW] = U64(0)

\* C12: CloseRegistry by the authority, with its proof, on an initialized
\* registry whose balance added to the destination's balance exceeds the
\* largest u64 fails with Overflow; both balances and every byte of the record
\* are what they were, so the registry is still initialized with its entries.
C12_CloseOverflow ==
    [][( /\ Tag(last') = "CloseWhitelistAccount"
         /\ Full(last')
         /\ HasProof(last')
         /\ Decode(data).is_initialized
         /\ CallerKey(last') = Decode(data).init_pubkey
         /\ Exceeds(lamports[ThirdKey(last')], lamports[KeyW]) )
       => /\ last'.res = "Overflow"
          /\ Untouched
          /\ Decode(data') = Decode(data)
          /\ Decode(data').is_initialized
      ]_vars

\* C12 witness: the authority closed a registry holding an entry towards the
\* record that holds the largest u64; the call returned Overflow and the entry
\* and both balances are still there.
C12_Witness ==
    /\ Tag(last) = "CloseWhitelistAccount"
    /\ last.res = "Overflow"
    /\ HasProof(last)
    /\ ThirdKey(last) = KeyP
    /\ lamports[KeyP] = U64_MAX
    /\ lamports[KeyW] = U64(minimum_balance(ACCOUNT_STATE_SPACE))
    /\ DOMAIN Decode(data).whitelist_map # {}

\* C13: after a successful CloseRegistry the record is uninitialized, empty
\* and reusable: it decodes as initialized = false with no entries; AddEntry,
\* RemoveEntry, ZeroAllocation and CloseRegistry on it fail with
\* TokenWhitelistNotInit; and once the record meets the balance policy again,
\* an InitRegistry by any signer succeeds, makes that signer the authority and
\* starts with no entry of the registry that was closed.
C13_Reusable ==
    [][/\ ( /\ Tag(last') = "CloseWhitelistAccount"
            /\ last'.res = "Ok" )
          => /\ unpack_from_slice(data').res = "Ok"
             /\ Decode(data') = DefaultState
       /\ ( /\ Decode(data) = DefaultState
            /\ Full(last')
            /\ HasProof(last') )
          => /\ Tag(last') \in {"AddToWhitelist", "RemoveFromWhitelist",
                                 "SetAllocationToZero", "CloseWhitelistAccount"}
                  => last'.res = "TokenWhitelistNotInit" /\ Untouched
             /\ ( /\ Tag(last') = "InitTokenWhitelist"
                  /\ ThirdKey(last') = RentId
                  /\ is_exempt(lamports[KeyW], ACCOUNT_STATE_SPACE) )
                  => /\ last'.res = "Ok"
                     /\ Decode(data') =
                            [is_initialized |-> TRUE,
                             init_pubkey |-> CallerKey(last'),
                             max_whitelist_size |-> Amount(last'),
                             whitelist_map |-> EmptyMap]
      ]_vars

\* C13 witness: the registry was closed towards KeyA, KeyA funded the record
\* again, and an InitRegistry by KeyP has just made KeyP the authority of a
\* registry without entries.
C13_Witness ==
    /\ funded
    /\ lamports = Funded
    /\ Tag(last) = "InitTokenWhitelist"
    /\ last.res = "Ok"
    /\ CallerKey(last) = KeyP
    /\ Decode(data) = [is_initialized |-> TRUE, init_pubkey |-> KeyP,
                       max_whitelist_size |-> Amount(last),
                       whitelist_map |-> EmptyMap]

\* The tag byte of each variant of the instruction.
TagByte(tag) ==
    CASE tag = "InitTokenWhitelist" -> 0
      [] tag = "AddToWhitelist" -> 1
      [] tag = "RemoveFromWhitelist" -> 2
      [] tag = "SetAllocationToZero" -> 3
      [] tag = "CloseWhitelistAccount" -> 4

\* C14: instruction round trip.  For each of the five variants and every u64
\* payload, encode emits the tag byte (0..4) followed by the 8-byte
\* little-endian payload for InitRegistry and AddEntry and by nothing for the
\* other three, and decode of those bytes gives the instruction back.
C14_InstructionRoundTrip ==
    /\ codec.stage \in {"packed", "unpacked"}
          => /\ codec.bytes[1] = TagByte(codec.ix.tag)
             /\ IF codec.ix.tag \in {"InitTokenWhitelist", "AddToWhitelist"}
                THEN /\ Len(codec.bytes) = 1 + WHITELIST_SIZE_BYTES
                     /\ \A i \in 1..4 :
                            codec.bytes[2 * i] + 256 * codec.bytes[2 * i + 1]
                                = codec.ix.amount[5 - i]
                ELSE Len(codec.bytes) = 1
    /\ codec.stage = "unpacked"
          => codec.out = [res |-> "Ok", ix |-> codec.ix]

\* C14 witness: AddToWhitelist with a payload whose four 16-bit limbs all
\* differ went through pack, as tag 1 and the eight bytes least significant
\* first, and through unpack.
C14_Witness ==
    /\ codec.stage = "unpacked"
    /\ codec.ix = AddToWhitelist(<<Limb - 1, 256, 255, 1>>)
    /\ codec.bytes = <<1, 1, 0, 255, 0, 0, 1, 255, 255>>
    /\ codec.out.ix = codec.ix

\* The instruction data is empty, starts with a tag outside 0..4, or has tag
\* 0 or 1 followed by fewer than 8 bytes.
Malformed(input) ==
    \/ input = <<>>
    \/ /\ input # <<>>
       /\ \/ input[1] \notin 0..4
          \/ input[1] \in {0, 1} /\ Len(input) - 1 < WHITELIST_SIZE_BYTES

\* C15: instruction decode returns InvalidInstruction, and the processor
\* changes no record and no balance, for every input that is empty, has a tag
\* outside 0..4, or has tag 0 or 1 followed by fewer than 8 payload bytes.
C15_DecodeRejects ==
    [][Malformed(last'.instruction_data)
       => last'.res = "InvalidInstruction" /\ Untouched]_vars

\* The inputs C15 is right about: the empty one and the unknown tag are
\* refused with InvalidInstruction.
C15_Refused ==
    /\ last.instruction_data \in {<<>>, <<5>>}
    /\ last.res = "InvalidInstruction"

\* C16: record round trip.  For every registry value (any flag, authority,
\* capacity and entries) whose serialized map is at most MAP_BYTES long and
\* every prior content of the buffer, encode does not abort and decode of the
\* buffer it wrote gives the registry back.
C16_RecordRoundTrip ==
    /\ ( /\ codec.stage = "written"
         /\ Len(try_to_vec(codec.r.whitelist_map)) <= MAP_BYTES )
          => ~codec.panic
    /\ ( /\ codec.stage = "read"
         /\ codec.from.stage = "written" )
          => codec.out = [res |-> "Ok", state |-> codec.from.r]

\* C16 witness: an uninitialized registry with four entries, the empty string
\* among its keys, was written over a buffer of 255s and read back.
C16_Witness ==
    /\ codec.stage = "read"
    /\ codec.from.stage = "written"
    /\ codec.from.prior = [i \in 1..ACCOUNT_STATE_SPACE |-> 255]
    /\ ~codec.from.r.is_initialized
    /\ DOMAIN codec.from.r.whitelist_map = EntryKeys
    /\ codec.out.state = codec.from.r
    /\ Len(data) = ACCOUNT_STATE_SPACE

\* C16 witness at the boundary: a map whose serialization is exactly
\* MAP_BYTES long was written over the record of a full registry and read
\* back.
C16_BoundaryWitness ==
    /\ codec.stage = "read"
    /\ codec.from.stage = "written"
    /\ codec.from.prior = FullRecord
    /\ codec.from.r.whitelist_map = BoundaryMap
    /\ Len(try_to_vec(BoundaryMap)) = MAP_BYTES
    /\ codec.out.state = codec.from.r

\* The serialized-map length the record declares.
DeclaredLength(buf) == count_from_le(Slice(buf, OffLen, OffMap - 1))

\* The map payload a record declares does not fit the region, or does not
\* deserialize, or the init flag is neither 0 nor 1.
Corrupted(buf) ==
    \/ ByteAt(buf, OffInit) \notin {0, 1}
    \/ DeclaredLength(buf) > MAP_BYTES
    \/ /\ DeclaredLength(buf) > 0
       /\ DeclaredLength(buf) <= MAP_BYTES
       /\ ~try_from_slice(Slice(buf, OffMap, OffMap + DeclaredLength(buf) - 1)).ok

\* C17: encode of a registry whose serialized map is longer than MAP_BYTES
\* fails without aborting and without writing; an AddEntry that would push
\* the serialized map past MAP_BYTES returns an error with the record
\* unchanged; and no record the program writes declares a length above
\* MAP_BYTES.
C17_CapacityError ==
    [][ /\ ( /\ codec.stage = "registry"
             /\ Len(try_to_vec(codec.r.whitelist_map)) > MAP_BYTES )
           => ~codec'.panic /\ data' = data
        /\ ( /\ codec.stage = "buffer"
             /\ Tag(last') = "AddToWhitelist"
             /\ ~Corrupted(data)
             /\ Len(try_to_vec(add_keypair(Decode(data), Target(last'),
                                           Amount(last')).whitelist_map))
                    > MAP_BYTES )
           => IsError(last'.res) /\ Untouched
        /\ data' # data => DeclaredLength(data') <= MAP_BYTES
      ]_vars

\* Where C17 fails in the processor: AddEntry for a new participant on the
\* registry of FullCount entries aborts, the header already written.
C17_AddAborts ==
    /\ codec.stage = "buffer"
    /\ Tag(last) = "AddToWhitelist"
    /\ ThirdKey(last) = KeyP
    /\ last.res = "Panic"
    /\ DeclaredLength(data) > MAP_BYTES

\* C18: decode of a record never aborts: it returns InvalidAccountData when
\* the init flag is neither 0 nor 1 and an error when the declared length is
\* above MAP_BYTES or the payload does not deserialize, so every operation on
\* a corrupted record returns an error and leaves the record and the balances
\* as they were.
C18_DecodeTotal ==
    [][ /\ ( /\ codec.stage = "buffer"
             /\ codec'.stage = "read" )
           => /\ codec'.out.res # "Panic"
              /\ ByteAt(data, OffInit) \notin {0, 1}
                    => codec'.out.res = "InvalidAccountData"
              /\ Corrupted(data) => IsError(codec'.out.res)
        /\ ( /\ codec.stage = "buffer"
             /\ last' # last
             /\ Corrupted(data) )
           => IsError(last'.res) /\ Untouched
      ]_vars

\* The part of C18 the code keeps: a record whose init flag is 2 and whose
\* declared length is 0 decodes to InvalidAccountData.
C18_BadFlagRefused ==
    /\ codec.stage = "read"
    /\ codec.from.stage = "buffer"
    /\ ByteAt(data, OffInit) = 2
    /\ codec.out.res = "InvalidAccountData"

C20_ZeroPadded ==
    Len(data) <= OffMap - 1 + DeclaredLength(data)

\* The part of C20 the code keeps: the padding is zero after the entries have
\* only been added (the last byte written that is not 0 is the low byte of the
\* last allocation).
C20_GrownOnly ==
    /\ Cardinality(DOMAIN Decode(data).whitelist_map) = 2
    /\ Len(data) = OffMap - 1 + DeclaredLength(data) - (WHITELIST_SIZE_BYTES - 1)

\* The keys of the first n entries of buf, in the order they are stored.
RECURSIVE StoredKeys(_, _)
StoredKeys(buf, n) ==
    IF n = 0 THEN <<>> ELSE <<EntryKey(buf)>> \o StoredKeys(EntryRest(buf), n - 1)

\* The keys of the entries the record's payload region declares, as stored.
RecordKeys(buf) ==
    IF DeclaredLength(buf) = 0
    THEN <<>>
    ELSE StoredKeys(Slice(buf, OffMap + MAP_LENGTH, OffMap + DeclaredLength(buf) - 1),
                    count_from_le(Slice(buf, OffMap, OffMap + MAP_LENGTH - 1)))

\* C21: insertion order is irrelevant.  From the same record, AddEntry for P
\* then AddEntry for Q leaves the record byte-identical to AddEntry for Q then
\* AddEntry for P (P and Q distinct, any allocations), and the entries are
\* stored in ascending key order.
C21_OrderIrrelevant ==
    ( /\ codec.stage = "fork"
      /\ codec.res = <<<<"Ok", "Ok">>, <<"Ok", "Ok">>>> )
       => /\ data = codec.mirror
          /\ \A i \in 1..(Len(RecordKeys(data)) - 1) :
                 StrLess(RecordKeys(data)[i], RecordKeys(data)[i + 1])

\* C21 witness: on a registry without entries, the participant with the
\* greater key was added first, with a different allocation than the other;
\* the record holds both entries and equals the one of the other order.
C21_Witness ==
    /\ codec.stage = "fork"
    /\ codec.res = <<<<"Ok", "Ok">>, <<"Ok", "Ok">>>>
    /\ Decode(codec.start).whitelist_map = EmptyMap
    /\ StrLess(to_string(codec.adds[2].key), to_string(codec.adds[1].key))
    /\ codec.adds[1].amount # codec.adds[2].amount
    /\ Len(RecordKeys(data)) = 2
    /\ data = codec.mirror

\* C21 witness on a record with bytes left from a removed entry: the two
\* orders agree on those bytes as well.
C21_StaleWitness ==
    /\ codec.stage = "fork"
    /\ codec.res = <<<<"Ok", "Ok">>, <<"Ok", "Ok">>>>
    /\ Len(codec.start) > OffMap - 1 + DeclaredLength(codec.start)
    /\ data = codec.mirror

\* The sum of the balances of all records, as five 16-bit limbs (most
\* significant first): the sum of four u64 can pass the largest u64.
Total(balances) ==
    LET s(i) == balances[KeyA][i] + balances[KeyP][i]
                    + balances[KeyW][i] + balances[RentId][i]
        t4 == s(4)
        t3 == s(3) + t4 \div Limb
        t2 == s(2) + t3 \div Limb
        t1 == s(1) + t2 \div Limb
    IN  <<t1 \div Limb, t1 % Limb, t2 % Limb, t3 % Limb, t4 % Limb>>

\* C22: balance conservation.  Every invocation, successful or failing,
\* leaves the sum of the balances of all records as it was; a successful
\* CloseRegistry destroys no balance, the registry record named as its own
\* destination included.
C22_Conservation ==
    [][Total(lamports') = Total(lamports)]_vars

\* The part of C22 the code keeps: a close to another record moves the
\* registry's balance there, the sum unchanged.
C22_Conserved ==
    /\ Tag(last) = "CloseWhitelistAccount"
    /\ last.res = "Ok"
    /\ ThirdKey(last) = KeyA
    /\ lamports[KeyW] = U64(0)
    /\ lamports[KeyA] # Funded[KeyA]
    /\ Total(lamports) = Total(Funded)

\* C23: starting from an all-zero record, after any sequence of invocations
\* by any callers, whenever the initialized flag is false the whole record is
\* zero (authority all zero, capacity 0, no entries); entries exist only
\* while the flag is true, and they belong to the current authority's
\* registry: the authority changes only through a record without entries,
\* and only the authority, with its proof, adds a key.
C23_UninitializedIsZero ==
    [][\A before \in {unpack_from_slice(data)}, after \in {unpack_from_slice(data')} :
        /\ after.res = "Ok"
        /\ ~after.state.is_initialized
              => /\ data' = ZeroRecord
                 /\ after.state = DefaultState
        /\ after.state.whitelist_map # EmptyMap => after.state.is_initialized
        /\ after.state.init_pubkey # before.state.init_pubkey
              => /\ after.state.whitelist_map = EmptyMap
                 /\ \/ before.state.whitelist_map = EmptyMap
                    \/ ~after.state.is_initialized
        /\ DOMAIN after.state.whitelist_map \ DOMAIN before.state.whitelist_map # {}
              => /\ CallerKey(last') = after.state.init_pubkey
                 /\ HasProof(last')
                 /\ before.state.is_initialized
      ]_vars

\* C23 witness: the registry of KeyA was closed, the record funded again and
\* initialized by KeyP; an AddEntry by KeyP has just put the only entry into
\* KeyP's registry.
C23_Witness ==
    /\ funded
    /\ Tag(last) = "AddToWhitelist"
    /\ last.res = "Ok"
    /\ CallerKey(last) = KeyP
    /\ Decode(data).is_initialized
    /\ Decode(data).init_pubkey = KeyP
    /\ Cardinality(DOMAIN Decode(data).whitelist_map) = 1

\* C23 witness for the closed record: a close by the authority has just
\* succeeded, and the record, whose flag is false, is all zero.
C23_ClosedWitness ==
    /\ Tag(last) = "CloseWhitelistAccount"
    /\ last.res = "Ok"
    /\ ~Decode(data).is_initialized
    /\ data = ZeroRecord

=============================================================================
